---------------------------- MODULE Spec2Model ----------------------------
(***************************************************************************)
(* A model of rs, an ls clone: the calendar conversion of src/time.rs, the *)
(* escape-aware text measure and the table formatter of src/format.rs, the *)
(* name lookup of src/user.rs and the entry pipeline of src/main.rs.       *)
(*                                                                         *)
(* Text is a sequence of characters, each character a one-element string   *)
(* token ("ESC" stands for the byte 0x1b).  Every character the model uses *)
(* is one byte, so String::len is the length of the sequence.              *)
(***************************************************************************)
EXTENDS Integers, Sequences, FiniteSets, TLC

VARIABLES
    days,        \* time.rs: the argument of SimpleDate::from_days
    date,        \* time.rs: the SimpleDate it returned, or NoDate
    month_text,  \* time.rs: what month_display returned, or a panic
    text_in,     \* format.rs: the string handed to blue_bold
    text_out,    \* format.rs: the string blue_bold returned, or None
    input_data,  \* format.rs: the grid of rows handed to table
    col_size,    \* format.rs: table's col_size argument
    align,       \* format.rs: table's align argument
    table_out,   \* format.rs: what table returned (Ok, Err or a panic), or None
    options,     \* main.rs: the Options struct, as the set of the flags that are set
    base_path,   \* main.rs: base_path of process_entries
    dir_entries, \* main.rs: the names process_entries hands to get_entries
    rs_entries,  \* main.rs: the RSEntries, [entries, block_size]
    sort_type,   \* main.rs: the RSSort handed to sort_by, or "None" before it
    stdout,      \* the strings printed with println!, in order
    stderr,      \* the diagnostics printed with eprintln!, in order
    pc,          \* how far process_entries has come
    row_entry,   \* main.rs: the RSEntry get_table_row is called on
    row_options, \* main.rs: the flags get_table_row is called with
    row_out,     \* main.rs: what get_table_row returned, or None
    bytes,       \* format.rs: the argument of bytes_to_human_readable
    human        \* format.rs: the string it returned, or None

dateVars  == <<days, date, month_text>>
textVars  == <<text_in, text_out>>
tableVars == <<input_data, col_size, align, table_out>>
runVars   == <<options, base_path, dir_entries, rs_entries, sort_type,
               stdout, stderr, pc>>

rowVars   == <<row_entry, row_options, row_out>>

sizeVars  == <<bytes, human>>

vars == <<dateVars, textVars, tableVars, runVars, rowVars, sizeVars>>

(***************************************************************************)
(* Outcomes that are not values.                                           *)
(***************************************************************************)
Ok(v)    == [kind |-> "Ok", val |-> v]         \* Result::Ok, Option::Some, a plain return
Err(v)   == [kind |-> "Err", val |-> v]        \* Result::Err
None     == [kind |-> "None", val |-> <<>>]    \* Option::None; nothing returned yet
Panicked == [kind |-> "Panic", val |-> <<>>]   \* the thread panicked

(***************************************************************************)
(* Text helpers.                                                           *)
(***************************************************************************)
Min(a, b) == IF a < b THEN a ELSE b

DIGITS == <<"0", "1", "2", "3", "4", "5", "6", "7", "8", "9">>

\* u64::to_string: the decimal digits of n, most significant first.
RECURSIVE to_string(_)
to_string(n) ==
    IF n < 10 THEN <<DIGITS[n + 1]>>
    ELSE Append(to_string(n \div 10), DIGITS[(n % 10) + 1])

\* String::truncate(n): keeps the first n characters; shorter text is left alone.
truncate(s, n) == SubSeq(s, 1, Min(n, Len(s)))

(***************************************************************************)
(* src/time.rs                                                             *)
(***************************************************************************)
MaxDays == 1200

NoDate == [year |-> 0, month |-> 0, day |-> 0]

DateFormats == {"Numeric", "FullMonth", "ShortMonth"}

\* SimpleDate::from_days.  The arithmetic is u64; for the day counts of the
\* model every intermediate value stays far below 2^31, so nothing wraps.
from_days(d) ==
    LET days1 == d + 719468
        era   == (IF days1 > 0 THEN days1 ELSE days1 - 146096) \div 146097
        doe   == days1 - era * 146097
        yoe   == (doe - doe \div 1460 + doe \div 36524 - doe \div 146096) \div 365
        y     == yoe + era * 400
        doy   == doe - (365 * yoe + yoe \div 4 - yoe \div 100)
        mp    == (5 * doy + 2) \div 153
        dd    == doy - (153 * mp + 2) \div 5 + 1
        m     == mp + (IF mp < 10 THEN 3 ELSE 9)
    IN  [year |-> y, month |-> m, day |-> dd]

MONTH_NAMES == <<
    <<"J", "a", "n", "u", "a", "r", "y">>,
    <<"F", "e", "b", "r", "u", "a", "r", "y">>,
    <<"M", "a", "r", "c", "h">>,
    <<"A", "p", "r", "i", "l">>,
    <<"M", "a", "y">>,
    <<"J", "u", "n", "e">>,
    <<"J", "u", "l", "y">>,
    <<"A", "u", "g", "u", "s", "t">>,
    <<"S", "e", "p", "t", "e", "m", "b", "e", "r">>,
    <<"O", "c", "t", "o", "b", "e", "r">>,
    <<"N", "o", "v", "e", "m", "b", "e", "r">>,
    <<"D", "e", "c", "e", "m", "b", "e", "r">> >>

\* SimpleDate::month_from_numeric: Ok(name), or Err for a month outside 1..12.
month_from_numeric(month_numeric) ==
    LET selected_month == IF month_numeric \in 1..12
                          THEN MONTH_NAMES[month_numeric] ELSE <<>>
    IN  IF selected_month = <<>>
        THEN Err(<<"Invalid month. Range is [1,12]">>)
        ELSE Ok(selected_month)

\* SimpleDate::month_display: the unwrap of an Err panics.
month_display(dt, format) ==
    CASE format = "Numeric"   -> Ok(to_string(dt.month))
      [] format = "FullMonth" ->
            IF month_from_numeric(dt.month).kind = "Ok"
            THEN Ok(month_from_numeric(dt.month).val) ELSE Panicked
      [] format = "ShortMonth" ->
            IF month_from_numeric(dt.month).kind = "Ok"
            THEN Ok(truncate(month_from_numeric(dt.month).val, 3)) ELSE Panicked

\* SimpleDate::day
day(dt) == to_string(dt.day)

DateIdle ==
    /\ days = 0
    /\ date = NoDate
    /\ month_text = None

\* A day count (main.rs: seconds since the epoch / 86400) to convert.
DateInit ==
    /\ days \in 0..MaxDays
    /\ date = NoDate
    /\ month_text = None

\* The caller converts the day count.
FromDays ==
        /\ date = NoDate
        /\ date' = from_days(days)
        /\ UNCHANGED <<days, month_text>>
        /\ UNCHANGED <<textVars, tableVars, runVars, rowVars, sizeVars>>

\* A caller formats the month of the date it holds.
MonthDisplay ==
    \E format \in DateFormats :
        /\ date # NoDate
        /\ month_text.kind = "None"
        /\ month_text' = month_display(date, format)
        /\ UNCHANGED <<days, date>>
        /\ UNCHANGED <<textVars, tableVars, runVars, rowVars, sizeVars>>


(***************************************************************************)
(* src/format.rs: escape sequences and the visible length of a string.     *)
(***************************************************************************)
ESCAPE_BLUE_BOLD == <<"ESC", "[", "3", "4", ";", "1", "m">>
ESCAPE_RESET     == <<"ESC", "[", "0", "m">>

\* Whether pat occurs in s at position i (1-based).
MatchesAt(s, pat, i) ==
    /\ i + Len(pat) - 1 <= Len(s)
    /\ SubSeq(s, i, i + Len(pat) - 1) = pat

\* str::replace(from, to) for a non-empty pattern: the non-overlapping
\* matches, found left to right, are each replaced.
RECURSIVE replace(_, _, _)
replace(s, from, to) ==
    IF Len(s) < Len(from) THEN s
    ELSE IF MatchesAt(s, from, 1)
         THEN to \o replace(SubSeq(s, Len(from) + 1, Len(s)), from, to)
         ELSE <<Head(s)>> \o replace(Tail(s), from, to)

\* format::blue_bold: the format string spells the two sequences out.
blue_bold(str) ==
    <<"ESC", "[", "3", "4", ";", "1", "m">> \o str \o <<"ESC", "[", "0", "m">>

\* A measure that forgets the reset sequence.
unescaped_length_keeps_reset(str) ==
    Len(replace(str, ESCAPE_BLUE_BOLD, <<>>))

\* format::unescaped_length
unescaped_length(str) ==
    Len(replace(replace(str, ESCAPE_BLUE_BOLD, <<>>), ESCAPE_RESET, <<>>))

MaxFrags == 3

\* The pieces test strings are made of: the two escape sequences, every
\* proper prefix and suffix of them, and an ordinary character.
Prefixes(s) == {SubSeq(s, 1, n) : n \in 1..Len(s)}
Suffixes(s) == {SubSeq(s, n, Len(s)) : n \in 1..Len(s)}
Fragments ==
    Prefixes(ESCAPE_BLUE_BOLD) \cup Suffixes(ESCAPE_BLUE_BOLD)
    \cup Prefixes(ESCAPE_RESET) \cup Suffixes(ESCAPE_RESET) \cup {<<"a">>}

RECURSIVE Concat(_)
Concat(ss) == IF ss = <<>> THEN <<>> ELSE Head(ss) \o Concat(Tail(ss))

\* The concatenations of at most n pieces.
TextInputs(n) ==
    UNION {{Concat(fs) : fs \in [1..k -> Fragments]} : k \in 0..n}

TextIdle ==
    /\ text_in = <<>>
    /\ text_out = None

TextInit ==
    /\ text_in \in TextInputs(MaxFrags)
    /\ text_out = None

\* main.rs wraps the name of a directory for a terminal.
BlueBold ==
    /\ text_out = None
    /\ text_out' = Ok(blue_bold(text_in))
    /\ UNCHANGED text_in
    /\ UNCHANGED <<dateVars, tableVars, runVars, rowVars, sizeVars>>

(***************************************************************************)
(* src/format.rs: the table formatter.                                     *)
(***************************************************************************)
TableAlignments == {"Left", "Right", "RightLastLeft"}

\* The message of the validation error, kept as one token.
ROWS_ERROR == <<"All rows must have the same number of columns">>

\* " ".repeat(n), and the spaces a padding loop pushes.
RECURSIVE repeat(_, _)
repeat(s, n) == IF n <= 0 THEN <<>> ELSE s \o repeat(s, n - 1)

\* [String]::join(sep)
RECURSIVE join(_, _)
join(ss, sep) ==
    IF ss = <<>> THEN <<>>
    ELSE IF Len(ss) = 1 THEN Head(ss)
    ELSE Head(ss) \o sep \o join(Tail(ss), sep)

\* format::pad_right.  length - unescaped_length underflows usize when the
\* text is wider than length: a panic (debug) or an endless push (release).
pad_right(input, length) ==
    IF unescaped_length(input) = length THEN input
    ELSE IF unescaped_length(input) > length THEN Panicked
    ELSE input \o repeat(<<" ">>, length - unescaped_length(input))

\* A pad_left that measures the text with its escape sequences.
pad_left_raw_length(input, length) ==
    IF Len(input) >= length THEN input
    ELSE repeat(<<" ">>, length - Len(input)) \o input

\* format::pad_left
pad_left(input, length) ==
    IF unescaped_length(input) = length THEN input
    ELSE IF unescaped_length(input) > length THEN Panicked
    ELSE repeat(<<" ">>, length - unescaped_length(input)) \o input

\* The largest member of a non-empty set of numbers.
SetMax(S) == CHOOSE x \in S : \A y \in S : y <= x

\* format::col_max_size_map, for a grid whose rows all reach num_cols: a
\* column gets an entry once one of its cells is wider than 0.
col_max_size_map(data) ==
    LET num_rows == Len(data)
        num_cols == Len(data[1])
        seen(col) == {unescaped_length(data[row][col]) : row \in 1..num_rows}
    IN  [col \in {c \in 1..num_cols : SetMax(seen(c)) > 0} |-> SetMax(seen(col))]

\* format::validate_table_equality
validate_table_equality(data, num_rows, num_cols) ==
    IF \E row \in 1..num_rows : Len(data[row]) # num_cols
    THEN Err(ROWS_ERROR)
    ELSE Ok(<<>>)

\* The cell table writes back into input_data[row][col].
table_cell(data, align_, widths, row, col) ==
    IF col \in DOMAIN widths
    THEN CASE align_ = "Left"  -> pad_right(data[row][col], widths[col])
           [] align_ = "Right" -> pad_left(data[row][col], widths[col])
           [] align_ = "RightLastLeft" ->
                 IF col = Len(data[1])
                 THEN pad_right(data[row][col], widths[col])
                 ELSE pad_left(data[row][col], widths[col])
    ELSE data[row][col]

\* format::table.  input_data[0] panics on a grid without rows.
table(data, col_size_, align_) ==
    IF Len(data) = 0 THEN Panicked
    ELSE
      LET num_rows == Len(data)
          num_cols == Len(data[1])
      IN  IF validate_table_equality(data, num_rows, num_cols).kind = "Err"
          THEN validate_table_equality(data, num_rows, num_cols)
          ELSE
            LET widths == col_max_size_map(data)
                line(row) ==
                    join([col \in 1..num_cols |->
                             table_cell(data, align_, widths, row, col)],
                         repeat(<<" ">>, col_size_))
            IN  Ok(join([row \in 1..num_rows |-> line(row)], <<"\n">>))

MaxRows == 2
MaxCols == 2

\* The cells grids are made of: an empty cell, a plain word and a coloured
\* name (visible widths 0, 2 and 1).
CellPool == {<<>>, <<"a", "b">>, blue_bold(<<"d">>)}

ColSizes == {1, 2}

SeqsUpTo(S, n) == UNION {[1..k -> S] : k \in 0..n}

\* The grids of at most rows rows of at most cols cells each.
Grids(rows, cols) == SeqsUpTo(SeqsUpTo(CellPool, cols), rows)

TableIdle ==
    /\ input_data = <<>>
    /\ col_size = 1
    /\ align = "RightLastLeft"
    /\ table_out = None

TableInit ==
    /\ input_data \in Grids(MaxRows, MaxCols)
    /\ col_size \in ColSizes
    /\ align \in TableAlignments
    /\ table_out = None

\* A caller renders the grid it holds.
Table ==
    /\ table_out = None
    /\ table_out' = table(input_data, col_size, align)
    /\ UNCHANGED <<input_data, col_size, align>>
    /\ UNCHANGED <<dateVars, textVars, runVars, rowVars, sizeVars>>

(***************************************************************************)
(* std: paths and orderings, as far as main.rs uses them.                  *)
(***************************************************************************)
\* The byte of each character that occurs in a name or a path.
BYTE ==
    [c \in {".", "/", "a", "b", "c", "d", "e", "g", "h", "m", "o", "x", "~"} |->
        CASE c = "." -> 46  [] c = "/" -> 47  [] c = "a" -> 97  [] c = "b" -> 98
          [] c = "c" -> 99  [] c = "d" -> 100 [] c = "e" -> 101 [] c = "g" -> 103
          [] c = "h" -> 104 [] c = "m" -> 109 [] c = "o" -> 111 [] c = "x" -> 120
          [] c = "~" -> 126]

\* Ordering: Less, Equal, Greater.
Less    == -1
Equal   == 0
Greater == 1

\* Ord::cmp of two integers; bool orders false before true.
cmp_int(x, y) == IF x < y THEN Less ELSE IF x > y THEN Greater ELSE Equal
cmp_bool(x, y) == cmp_int(IF x THEN 1 ELSE 0, IF y THEN 1 ELSE 0)

\* Ord::cmp of str and of OsStr: bytewise lexicographic.
RECURSIVE cmp_str(_, _)
cmp_str(x, y) ==
    IF x = <<>> /\ y = <<>> THEN Equal
    ELSE IF x = <<>> THEN Less
    ELSE IF y = <<>> THEN Greater
    ELSE IF BYTE[Head(x)] # BYTE[Head(y)] THEN cmp_int(BYTE[Head(x)], BYTE[Head(y)])
    ELSE cmp_str(Tail(x), Tail(y))

\* The pieces of s between the occurrences of the character sep.
RECURSIVE Split(_, _)
Split(s, sep) ==
    IF \A i \in 1..Len(s) : s[i] # sep THEN <<s>>
    ELSE LET i == CHOOSE k \in 1..Len(s) : s[k] = sep /\ \A j \in 1..(k - 1) : s[j] # sep
         IN  <<SubSeq(s, 1, i - 1)>> \o Split(SubSeq(s, i + 1, Len(s)), sep)

\* Path::join of a relative name onto a base.
path_join(base, name) ==
    IF base = <<>> \/ base[Len(base)] = "/" THEN base \o name
    ELSE base \o <<"/">> \o name

\* Path::components of a relative path: empty pieces and "." pieces are
\* dropped, except a leading ".".
components(path) ==
    LET pieces == Split(path, "/")
    IN  SelectSeq([i \in 1..Len(pieces) |-> [at |-> i, text |-> pieces[i]]],
                  LAMBDA p : /\ p.text # <<>>
                             /\ (p.text = <<".">> => p.at = 1))

\* Path::file_name: the last component, when it is a normal one.
file_name(path) ==
    LET comps == components(path)
    IN  IF comps = <<>> THEN None
        ELSE LET last == comps[Len(comps)].text
             IN  IF last = <<".">> \/ last = <<".", ".">> THEN None ELSE Ok(last)

\* Path::extension: the text after the last dot of the file name; none
\* without a file name, without a dot, or when the only dot leads the name.
extension(path) ==
    LET file == file_name(path)
    IN  IF file.kind = "None" THEN None
        ELSE LET f    == file.val
                 dots == {i \in 1..Len(f) : f[i] = "."}
             IN  IF dots = {} THEN None
                 ELSE LET lastDot == CHOOSE i \in dots : \A j \in dots : j <= i
                      IN  IF lastDot = 1 THEN None
                          ELSE Ok(SubSeq(f, lastDot + 1, Len(f)))

(***************************************************************************)
(* src/main.rs: entries and their order.                                   *)
(***************************************************************************)
DEFAULT_PATH == <<".">>
CURRENT_DIR  == <<".">>
PARENT_DIR   == <<".", ".">>
ENTRY_SPACE  == <<" ", " ">>
SECS_PER_DAY == 86400
MB_BYTES     == 1024

RSSort == {"Time", "AccessTime", "Size", "Directory", "Extension", "Default"}

\* Metadata::is_dir, is_file, is_symlink, of the record fs::metadata gave.
is_dir(meta)     == meta.file_type = "dir"
is_file(meta)    == meta.file_type = "file"
is_symlink(meta) == meta.file_type = "symlink"

\* impl Ord for RSEntry: by name.
entry_cmp(a, b) == cmp_str(a.name, b.name)

\* A closure whose Extension arm orders an entry without extension after
\* one with an extension.
sort_compare_extensionless_last(kind, a, b) ==
    IF a.metadata.kind = "Ok" /\ b.metadata.kind = "Ok"
    THEN LET meta_a == a.metadata.val
             meta_b == b.metadata.val
         IN  CASE kind = "Directory"  -> cmp_bool(is_dir(meta_b), is_dir(meta_a))
               [] kind = "Time"       -> cmp_int(meta_b.st_mtime, meta_a.st_mtime)
               [] kind = "AccessTime" -> cmp_int(meta_b.st_atime, meta_a.st_atime)
               [] kind = "Size"       -> cmp_int(meta_b.len, meta_a.len)
               [] kind = "Extension"  ->
                    LET ext_a == extension(a.path)
                        ext_b == extension(b.path)
                    IN  CASE ext_a.kind = "Ok" /\ ext_b.kind = "Ok" ->
                                 cmp_str(ext_a.val, ext_b.val)
                          [] ext_a.kind = "Ok" /\ ext_b.kind = "None" -> Less
                          [] ext_a.kind = "None" /\ ext_b.kind = "Ok" -> Greater
                          [] OTHER -> entry_cmp(a, b)
               [] kind = "Default"    -> entry_cmp(a, b)
    ELSE entry_cmp(a, b)

\* The closure RSEntries::sort_by hands to the slice sort.
sort_compare(kind, a, b) ==
    IF a.metadata.kind = "Ok" /\ b.metadata.kind = "Ok"
    THEN LET meta_a == a.metadata.val
             meta_b == b.metadata.val
         IN  CASE kind = "Directory"  -> cmp_bool(is_dir(meta_b), is_dir(meta_a))
               [] kind = "Time"       -> cmp_int(meta_b.st_mtime, meta_a.st_mtime)
               [] kind = "AccessTime" -> cmp_int(meta_b.st_atime, meta_a.st_atime)
               [] kind = "Size"       -> cmp_int(meta_b.len, meta_a.len)
               [] kind = "Extension"  ->
                    LET ext_a == extension(a.path)
                        ext_b == extension(b.path)
                    IN  CASE ext_a.kind = "Ok" /\ ext_b.kind = "Ok" ->
                                 cmp_str(ext_a.val, ext_b.val)
                          [] ext_a.kind = "Ok" /\ ext_b.kind = "None" -> Greater
                          [] ext_a.kind = "None" /\ ext_b.kind = "Ok" -> Less
                          [] OTHER -> entry_cmp(a, b)
               [] kind = "Default"    -> entry_cmp(a, b)
    ELSE entry_cmp(a, b)

\* The two insertion sorts the standard library has used for the stable
\* sort of a short slice (at most 20 elements).  They agree whenever the
\* comparison is a consistent order; otherwise the result is unspecified.
SortImpls == {"shift_left", "insert_head"}

\* insert_tail: x moves left past every element it is less than.
RECURSIVE insert_tail(_, _, _)
insert_tail(kind, sorted, x) ==
    IF sorted = <<>> THEN <<x>>
    ELSE IF sort_compare(kind, x, sorted[Len(sorted)]) = Less
         THEN Append(insert_tail(kind, SubSeq(sorted, 1, Len(sorted) - 1), x),
                     sorted[Len(sorted)])
         ELSE Append(sorted, x)

\* insert_head: x moves right past every element that is less than it.
RECURSIVE insert_head(_, _, _)
insert_head(kind, x, sorted) ==
    IF sorted = <<>> THEN <<x>>
    ELSE IF sort_compare(kind, Head(sorted), x) = Less
         THEN <<Head(sorted)>> \o insert_head(kind, x, Tail(sorted))
         ELSE <<x>> \o sorted

RECURSIVE shift_left_sort(_, _)
shift_left_sort(kind, v) ==
    IF Len(v) < 2 THEN v
    ELSE insert_tail(kind, shift_left_sort(kind, SubSeq(v, 1, Len(v) - 1)), v[Len(v)])

RECURSIVE insert_head_sort(_, _)
insert_head_sort(kind, v) ==
    IF Len(v) < 2 THEN v
    ELSE insert_head(kind, Head(v), insert_head_sort(kind, Tail(v)))

\* RSEntries::sort_by: Vec::sort_by with the closure above.
sort_by(entries, kind, impl) ==
    IF impl = "shift_left" THEN shift_left_sort(kind, entries)
    ELSE insert_head_sort(kind, entries)

\* RSEntries::reverse
reverse(entries) == [i \in 1..Len(entries) |-> entries[Len(entries) + 1 - i]]

\* main.rs get_entries: one RSEntry per name, with the metadata fs::metadata
\* gave for its path (stat[name]) or none; the I/O block sizes add up.
RECURSIVE get_entries(_, _, _)
get_entries(names, base, stat) ==
    IF names = <<>> THEN [entries |-> <<>>, block_size |-> 0, errors |-> <<>>]
    ELSE LET before     == get_entries(SubSeq(names, 1, Len(names) - 1), base, stat)
             dir_entry  == names[Len(names)]
             local_path == path_join(base, dir_entry)
             metadata   == stat[dir_entry]
         IN  IF metadata.kind = "Ok"
             THEN [entries    |-> Append(before.entries,
                                         [name |-> dir_entry, path |-> local_path,
                                          metadata |-> Ok(metadata.val)]),
                   block_size |-> before.block_size + metadata.val.st_blksize \div MB_BYTES,
                   errors     |-> before.errors]
             ELSE [entries    |-> Append(before.entries,
                                         [name |-> dir_entry, path |-> local_path,
                                          metadata |-> None]),
                   block_size |-> before.block_size,
                   errors     |-> Append(before.errors, metadata.val)]

(***************************************************************************)
(* The file system the program runs against.                               *)
(***************************************************************************)
MaxEntries == 3

\* What fs::metadata can give: a directory and two files.  The directory
\* and the first file share the modification and access times, the two
\* files share the size; the second file was last modified on 1970-01-01.
\* The directory occupies no disk blocks (as one of a memory file system
\* does), the first file eight of 512 bytes; the I/O block size st_blksize
\* is that of the file system, the same for all.
META_DIR ==
    [file_type |-> "dir", len |-> 4096, mode |-> 16877, st_nlink |-> 2,
     st_uid |-> 0, st_gid |-> 0, st_mtime |-> 5097600, st_atime |-> 5184000,
     st_blocks |-> 0, st_blksize |-> 4096, st_ino |-> 11]
META_FILE ==
    [file_type |-> "file", len |-> 5, mode |-> 33188, st_nlink |-> 1,
     st_uid |-> 7, st_gid |-> 7, st_mtime |-> 5097600, st_atime |-> 5184000,
     st_blocks |-> 8, st_blksize |-> 4096, st_ino |-> 12]
META_OLD ==
    [file_type |-> "file", len |-> 5, mode |-> 33188, st_nlink |-> 1,
     st_uid |-> 7, st_gid |-> 0, st_mtime |-> 0, st_atime |-> 0,
     st_blocks |-> 0, st_blksize |-> 4096, st_ino |-> 13]

NOT_FOUND == <<"No such file or directory (os error 2)">>

StatResults == {Ok(META_DIR), Ok(META_FILE), Ok(META_OLD), Err(NOT_FOUND)}

\* The names of the directories that are sorted.
SortNames ==
    { <<"a", ".", "m", "d">>, <<"b">>, <<"c", ".", "g", "o">>,
      <<"d", ".", "g", "o">>, <<"e">> }

Range(f) == {f[i] : i \in DOMAIN f}

\* The lists of at most n distinct members of S.
DistinctSeqs(S, n) ==
    {q \in SeqsUpTo(S, n) : \A i, j \in 1..Len(q) : i # j => q[i] # q[j]}

NO_ENTRIES == [entries |-> <<>>, block_size |-> 0]

RunIdle ==
    /\ options = {}
    /\ base_path = DEFAULT_PATH
    /\ dir_entries = <<>>
    /\ rs_entries = NO_ENTRIES
    /\ sort_type = "None"
    /\ stdout = <<>>
    /\ stderr = <<>>
    /\ pc = "idle"

\* A listing of a directory, about to be handed to get_entries.
SortInit ==
    /\ options = {}
    /\ base_path = DEFAULT_PATH
    /\ dir_entries \in DistinctSeqs(SortNames, MaxEntries)
    /\ rs_entries = NO_ENTRIES
    /\ sort_type = "None"
    /\ stdout = <<>>
    /\ stderr = <<>>
    /\ pc = "listed"

\* get_entries: fs::metadata answers for every path, each failure is
\* printed to stderr.
GetEntries ==
    /\ pc = "listed"
    /\ \E stat \in [Range(dir_entries) -> StatResults] :
          LET got == get_entries(dir_entries, base_path, stat)
          IN  /\ rs_entries' = [entries |-> got.entries, block_size |-> got.block_size]
              /\ stderr' = stderr \o got.errors
    /\ pc' = "collected"
    /\ UNCHANGED <<options, base_path, dir_entries, sort_type, stdout>>
    /\ UNCHANGED <<dateVars, textVars, tableVars, rowVars, sizeVars>>

\* RSEntries::sort_by, called with any key.
SortBy ==
    /\ pc = "collected"
    /\ \E kind \in RSSort, impl \in SortImpls :
          /\ rs_entries' = [rs_entries EXCEPT !.entries = sort_by(@, kind, impl)]
          /\ sort_type' = kind
    /\ pc' = "sorted"
    /\ UNCHANGED <<options, base_path, dir_entries, stdout, stderr>>
    /\ UNCHANGED <<dateVars, textVars, tableVars, rowVars, sizeVars>>

\* RSEntries::reverse, called after a sort.
Reverse ==
    /\ pc = "sorted"
    /\ rs_entries' = [rs_entries EXCEPT !.entries = reverse(@)]
    /\ pc' = "reversed"
    /\ UNCHANGED <<options, base_path, dir_entries, sort_type, stdout, stderr>>
    /\ UNCHANGED <<dateVars, textVars, tableVars, rowVars, sizeVars>>

(***************************************************************************)
(* src/user.rs                                                             *)
(***************************************************************************)
\* /etc/passwd and /etc/group as the program reads them, line by line.
USER_DATABASE == << <<"r", "o", "o", "t", ":", "x", ":", "0", ":", "0", ":">>,
                    <<"u", ":", "x", ":", "7", ":", "7", ":">> >>
USER_GROUP    == << <<"w", "h", "e", "e", "l", ":", "x", ":", "0", ":">>,
                    <<"s", "t", "a", "f", "f", ":", "x", ":", "7", ":">> >>

\* str::contains
contains(s, pat) == \E i \in 1..(Len(s) + 1) : MatchesAt(s, pat, i)

\* The characters of line before its first ':' (the whole line without one).
RECURSIVE before_colon(_)
before_colon(line) ==
    IF line = <<>> \/ Head(line) = ":" THEN <<>>
    ELSE <<Head(line)>> \o before_colon(Tail(line))

\* user::get_name_from_db: the first field of the first line that holds
\* ":<id>:"; the empty name when no line does.
RECURSIVE get_name_from_db(_, _)
get_name_from_db(id, db) ==
    IF db = <<>> THEN <<>>
    ELSE IF contains(Head(db), <<":">> \o to_string(id) \o <<":">>)
         THEN before_colon(Head(db))
         ELSE get_name_from_db(id, Tail(db))

\* user::get_by_uid and user::group_by_gid; readable says whether
\* fs::read_to_string could read the file.
get_by_uid(uid, readable) ==
    IF readable THEN Ok(get_name_from_db(uid, USER_DATABASE))
    ELSE Err(<<"Error getting user name">>)

group_by_gid(gid, readable) ==
    IF readable THEN Ok(get_name_from_db(gid, USER_GROUP))
    ELSE Err(<<"Error getting group name">>)

(***************************************************************************)
(* src/format.rs: sizes.                                                   *)
(***************************************************************************)
KB_IN_BYTES == 1024
MB_IN_BYTES == 1048576
GB_IN_BYTES == 1073741824

\* A u64 is kept as its digits to the base 1024, the lowest first and
\* without leading zeros (0 is the empty sequence): the sizes reach past
\* the range of the integers that can be enumerated.
RECURSIVE to_limbs(_)
to_limbs(n) ==
    IF n = 0 THEN <<>>
    ELSE <<n % KB_IN_BYTES>> \o to_limbs(n \div KB_IN_BYTES)

\* 1099511627776.0 = 1024 * GB_IN_BYTES
TB_IN_BYTES == <<0>> \o to_limbs(GB_IN_BYTES)

\* a < b on two such numbers (f64 comparison, exact on these values).
RECURSIVE limbs_lt(_, _)
limbs_lt(a, b) ==
    IF Len(a) # Len(b) THEN Len(a) < Len(b)
    ELSE IF a = <<>> THEN FALSE
    ELSE IF a[Len(a)] # b[Len(b)] THEN a[Len(a)] < b[Len(b)]
    ELSE limbs_lt(SubSeq(a, 1, Len(a) - 1), SubSeq(b, 1, Len(b) - 1))

\* 10 * rest + carry: the digits of the product that stay in the places of
\* rest, and the carry out of its highest place.
RECURSIVE times_ten(_, _)
times_ten(rest, carry) ==
    IF rest = <<>> THEN [carry |-> carry, left |-> <<>>]
    ELSE LET cur   == rest[1] * 10 + carry
             above == times_ten(Tail(rest), cur \div KB_IN_BYTES)
         IN  [carry |-> above.carry, left |-> <<cur % KB_IN_BYTES>> \o above.left]

\* num divided by 10, from the highest place down with r carried in: the
\* quotient (in as many places as num) and the remainder.
RECURSIVE div_ten(_, _)
div_ten(num, r) ==
    IF num = <<>> THEN [q |-> <<>>, r |-> r]
    ELSE LET cur   == r * KB_IN_BYTES + num[Len(num)]
             below == div_ten(SubSeq(num, 1, Len(num) - 1), cur % 10)
         IN  [q |-> Append(below.q, cur \div 10), r |-> below.r]

\* Drops the leading zeros.
RECURSIVE normalize(_)
normalize(num) ==
    IF num # <<>> /\ num[Len(num)] = 0
    THEN normalize(SubSeq(num, 1, Len(num) - 1)) ELSE num

\* format!("{}", num) of a whole f64 below 2^53: its decimal digits, with
\* no decimal point and no exponent.
RECURSIVE display(_)
display(num) ==
    IF num = <<>> THEN to_string(0)
    ELSE IF Len(num) = 1 THEN to_string(num[1])
    ELSE LET d == div_ten(num, 0)
         IN  Append(display(normalize(d.q)), DIGITS[d.r + 1])

\* format!("{:.1}{}", num / unit, label), for unit a power of 1024 and
\* unit <= num < 1024 * unit: the quotient is exact and is printed with
\* one decimal digit, rounded to the nearest tenth, a tie to the even digit.
one_decimal(num, unit, label) ==
    LET k      == Len(to_limbs(unit)) - 1
        whole  == num[k + 1]
        ten    == times_ten(SubSeq(num, 1, k), 0)
        tenths == ten.carry
        half   == KB_IN_BYTES \div 2
        lower  == \E i \in 1..(k - 1) : ten.left[i] # 0
        up     == \/ ten.left[k] > half
                  \/ ten.left[k] = half /\ lower
                  \/ ten.left[k] = half /\ ~lower /\ tenths % 2 = 1
        scaled == whole * 10 + tenths + (IF up THEN 1 ELSE 0)
    IN  to_string(scaled \div 10) \o <<".">> \o to_string(scaled % 10) \o label

\* format::bytes_to_human_readable.  "bytes as f64" is exact, the sizes of
\* the model being below 2^53.
bytes_to_human_readable(size) ==
    LET num == size
    IN  IF ~limbs_lt(num, to_limbs(KB_IN_BYTES)) /\ limbs_lt(num, to_limbs(MB_IN_BYTES))
        THEN one_decimal(num, KB_IN_BYTES, <<"K">>)
        ELSE IF ~limbs_lt(num, to_limbs(MB_IN_BYTES)) /\ limbs_lt(num, to_limbs(GB_IN_BYTES))
             THEN one_decimal(num, MB_IN_BYTES, <<"M">>)
        ELSE IF ~limbs_lt(num, to_limbs(GB_IN_BYTES)) /\ limbs_lt(num, TB_IN_BYTES)
             THEN one_decimal(num, GB_IN_BYTES, <<"G">>)
        ELSE display(num)

MaxLimbs == 5

\* The digits the sizes are made of: they give sizes on both sides of
\* every limit, quotients that end in .25 and .75, and quotients just
\* below the next whole number.
LimbPool == {0, 1, 2, 256, 500, 768, 1023}

\* The u64 values of at most n digits that an f64 holds exactly
\* (below 2^53 = 8 * 1024^5).
SizeInputs(n) ==
    {size \in SeqsUpTo(LimbPool, n) :
        /\ size # <<>> => size[Len(size)] # 0
        /\ Len(size) <= 5 \/ (Len(size) = 6 /\ size[6] < 8)}

SizeIdle ==
    /\ bytes = <<>>
    /\ human = None

SizeInit ==
    /\ bytes \in SizeInputs(MaxLimbs)
    /\ human = None

BytesToHumanReadable ==
    /\ human.kind = "None"
    /\ human' = Ok(bytes_to_human_readable(bytes))
    /\ UNCHANGED bytes
    /\ UNCHANGED <<dateVars, textVars, tableVars, runVars, rowVars>>

(***************************************************************************)
(* src/main.rs: the row of an entry.                                       *)
(***************************************************************************)
Flags ==
    {"is_show_all", "is_show_almost_all", "is_one_line", "is_long_output",
     "is_numeric_uid_gid", "is_human_readable", "is_group_directories_first",
     "is_ignore_backups", "is_sort_by_time", "is_sort_by_size",
     "is_sort_by_extension", "is_sort_reverse", "is_show_size_blocks",
     "is_access_time", "is_show_inode", "is_kibibytes", "is_comma_separated"}

\* The flags RSEntry::get_table_row reads.
RowFlags ==
    {"is_show_size_blocks", "is_kibibytes", "is_show_inode", "is_long_output",
     "is_numeric_uid_gid", "is_human_readable", "is_access_time"}

\* What the run finds outside the program: whether stdout is a terminal,
\* whether /etc/passwd and /etc/group can be read, the target of the build.
Envs == [tty : BOOLEAN, passwd : BOOLEAN, group : BOOLEAN, macos : BOOLEAN]

\* format!("{:o}", mode)
RECURSIVE to_octal(_)
to_octal(n) ==
    IF n < 8 THEN <<DIGITS[n + 1]>>
    ELSE Append(to_octal(n \div 8), DIGITS[(n % 8) + 1])

\* The characters a permission digit stands for.
permission_bits(bit) ==
    CASE bit = "4" -> <<"r", "-", "-">>
      [] bit = "5" -> <<"r", "-", "x">>
      [] bit = "6" -> <<"r", "w", "-">>
      [] bit = "7" -> <<"r", "w", "x">>
      [] OTHER -> <<>>

\* RSEntry::get_permission_string
get_permission_string(entry) ==
    IF entry.metadata.kind = "Ok"
    THEN LET file_metadata == entry.metadata.val
             prefix == IF is_dir(file_metadata) THEN <<"d">>
                       ELSE IF is_file(file_metadata) THEN <<"-">>
                       ELSE IF is_symlink(file_metadata) THEN <<"l">>
                       ELSE <<"?">>
             mode_string == to_octal(file_metadata.mode)
             bits == SubSeq(mode_string, Len(mode_string) - 2, Len(mode_string))
         IN  prefix \o permission_bits(bits[1]) \o permission_bits(bits[2])
                    \o permission_bits(bits[3])
    ELSE <<>>

\* RSEntry::get_file_size
get_file_size(entry) ==
    IF entry.metadata.kind = "Ok" THEN entry.metadata.val.len ELSE 0

\* RSEntry::get_file_size_human
get_file_size_human(entry) ==
    IF entry.metadata.kind = "Ok"
    THEN bytes_to_human_readable(to_limbs(entry.metadata.val.len)) ELSE <<>>

\* The long-format fields of get_table_row, or a panic of month_display.
long_fields(entry, opts, env) ==
    LET file_metadata == entry.metadata.val
        numeric    == "is_numeric_uid_gid" \in opts
        uid_string == IF numeric THEN to_string(file_metadata.st_uid)
                      ELSE IF get_by_uid(file_metadata.st_uid, env.passwd).kind = "Ok"
                           THEN get_by_uid(file_metadata.st_uid, env.passwd).val
                           ELSE <<"?">>
        gid_string == IF numeric THEN to_string(file_metadata.st_gid)
                      ELSE IF group_by_gid(file_metadata.st_gid, env.group).kind = "Ok"
                           THEN group_by_gid(file_metadata.st_gid, env.group).val
                           ELSE <<"?">>
        file_size_string == IF "is_human_readable" \in opts
                            THEN get_file_size_human(entry)
                            ELSE to_string(get_file_size(entry))
        time_to_parse == IF "is_access_time" \in opts
                         THEN file_metadata.st_atime ELSE file_metadata.st_mtime
        the_date == from_days(time_to_parse \div SECS_PER_DAY)
        month    == month_display(the_date, "ShortMonth")
    IN  IF month.kind = "Panic" THEN Panicked
        ELSE Ok(<<get_permission_string(entry), to_string(file_metadata.st_nlink),
                  uid_string, gid_string, file_size_string, month.val, day(the_date)>>)

\* RSEntry::get_table_row: Ok(the fields), or a panic.
get_table_row(entry, opts, env) ==
    IF entry.metadata.kind = "Ok"
    THEN LET file_metadata == entry.metadata.val
             blocks == IF "is_kibibytes" \in opts
                       THEN file_metadata.st_blocks \div 2 ELSE file_metadata.st_blocks
             size_blocks == IF "is_show_size_blocks" \in opts
                            THEN <<to_string(blocks)>> ELSE <<>>
             inode == IF "is_show_inode" \in opts /\ env.macos
                      THEN <<to_string(file_metadata.st_ino)>> ELSE <<>>
             long == IF "is_long_output" \in opts \/ "is_numeric_uid_gid" \in opts
                     THEN long_fields(entry, opts, env) ELSE Ok(<<>>)
             name == IF is_dir(file_metadata) /\ env.tty
                     THEN blue_bold(entry.name) ELSE entry.name
         IN  IF long.kind = "Panic" THEN Panicked
             ELSE Ok(size_blocks \o inode \o long.val \o <<name>>)
    ELSE Ok(<<>>)

\* RSEntries::to_tabular: the rows of the entries, or the first panic.
RECURSIVE to_tabular(_, _, _)
to_tabular(entries, opts, env) ==
    IF entries = <<>> THEN Ok(<<>>)
    ELSE LET row  == get_table_row(Head(entries), opts, env)
             rest == to_tabular(Tail(entries), opts, env)
         IN  IF row.kind = "Panic" \/ rest.kind = "Panic" THEN Panicked
             ELSE Ok(<<row.val>> \o rest.val)

(***************************************************************************)
(* src/main.rs: process_entries.                                           *)
(***************************************************************************)
starts_with(s, pat) == MatchesAt(s, pat, 1)
ends_with(s, pat)   == Len(s) >= Len(pat) /\ MatchesAt(s, pat, Len(s) - Len(pat) + 1)

\* main.rs get_dir_entries: hidden names are kept only with -a or -A,
\* backups are dropped with -B.
get_dir_entries(dir, opts) ==
    SelectSeq(dir,
              LAMBDA name :
                  /\ ("is_show_all" \in opts \/ "is_show_almost_all" \in opts)
                     \/ ~starts_with(name, CURRENT_DIR)
                  /\ ~("is_ignore_backups" \in opts /\ ends_with(name, <<"~">>)))

\* The match on the options that picks the sort key.
sort_type_of(opts) ==
    IF "is_group_directories_first" \in opts THEN "Directory"
    ELSE IF "is_sort_by_size" \in opts THEN "Size"
    ELSE IF {"is_access_time", "is_long_output", "is_sort_by_time"} \subseteq opts
         THEN "AccessTime"
    ELSE IF "is_sort_by_time" \in opts THEN "Time"
    ELSE IF "is_sort_by_extension" \in opts THEN "Extension"
    ELSE "Default"

\* The flattened rows: Vec<Vec<String>>::concat.
concat_rows(rows) == Concat(rows)

\* println!("total {}", block_size) unless -1, then println!("{}", table).
print_table(t, rs, opts) ==
    IF t.kind # "Ok" THEN Panicked
    ELSE IF "is_one_line" \notin opts
         THEN Ok(<< <<"t", "o", "t", "a", "l", " ">> \o to_string(rs.block_size),
                    t.val >>)
         ELSE Ok(<<t.val>>)

\* table(rows, RightLastLeft).unwrap(): the columns joined by one space.
print_rows_as_table(rows, rs, opts) ==
    IF rows.kind = "Panic" THEN Panicked
    ELSE print_table(table(rows.val, 1, "RightLastLeft"), rs, opts)

\* println!("{}", rows.concat().join(ENTRY_SPACE))
print_rows_joined(rows) ==
    IF rows.kind = "Panic" THEN Panicked
    ELSE Ok(<<join(concat_rows(rows.val), ENTRY_SPACE)>>)

\* What process_entries prints once the entries are in order: the strings
\* handed to println!, or a panic.
print_entries(rs, opts, env) ==
    IF {"is_one_line", "is_long_output", "is_numeric_uid_gid"} \cap opts # {}
    THEN print_rows_as_table(to_tabular(rs.entries, opts, env), rs, opts)
    ELSE IF "is_comma_separated" \in opts
         THEN Ok(<<join([i \in 1..Len(rs.entries) |-> rs.entries[i].name],
                        <<",", " ">>)>>)
    ELSE print_rows_joined(to_tabular(rs.entries, opts, env))

MaxFlags   == 1
MaxListing == 2

\* The names a directory can hold: a hidden one, a backup, and one other.
DirNames ==
    { <<".", "h">>, <<"e", "~">>, <<"a", ".", "m", "d">> }

BasePaths == {DEFAULT_PATH, <<"d", ".", "x">>}

\* The subsets of S with at most n members.
RECURSIVE SubsetsUpTo(_, _)
SubsetsUpTo(S, n) ==
    IF n = 0 THEN {{}}
    ELSE SubsetsUpTo(S, n - 1) \cup {T \cup {x} : T \in SubsetsUpTo(S, n - 1), x \in S}

\* The Options with at most n flags set.
OptionSets(n) == SubsetsUpTo(Flags, n)

\* process_entries is entered with the parsed options and the base path.
RunInit ==
    /\ options \in OptionSets(MaxFlags)
    /\ base_path \in BasePaths
    /\ dir_entries = <<>>
    /\ rs_entries = NO_ENTRIES
    /\ sort_type = "None"
    /\ stdout = <<>>
    /\ stderr = <<>>
    /\ pc = "start"

\* The flags the choice of the sort key and the reversal read.
KeyFlags ==
    {"is_group_directories_first", "is_sort_by_size", "is_access_time",
     "is_long_output", "is_sort_by_time", "is_sort_by_extension",
     "is_sort_reverse"}

\* process_entries is entered with any combination of these flags.
KeyInit ==
    /\ options \in SUBSET KeyFlags
    /\ base_path = DEFAULT_PATH
    /\ dir_entries = <<>>
    /\ rs_entries = NO_ENTRIES
    /\ sort_type = "None"
    /\ stdout = <<>>
    /\ stderr = <<>>
    /\ pc = "start"

\* The directory is read and filtered; -a adds "." and "..".
GetDirEntries ==
    /\ pc = "start"
    /\ \E dir \in DistinctSeqs(DirNames, MaxListing) :
          dir_entries' =
              get_dir_entries(dir, options)
              \o (IF "is_show_all" \in options THEN <<CURRENT_DIR, PARENT_DIR>> ELSE <<>>)
    /\ pc' = "listed"
    /\ UNCHANGED <<options, base_path, rs_entries, sort_type, stdout, stderr>>
    /\ UNCHANGED <<dateVars, textVars, tableVars, rowVars, sizeVars>>

\* The sort key is picked from the options and the entries are sorted.
ProcessSort ==
    /\ pc = "collected"
    /\ \E impl \in SortImpls :
          rs_entries' = [rs_entries EXCEPT
                            !.entries = sort_by(@, sort_type_of(options), impl)]
    /\ sort_type' = sort_type_of(options)
    /\ pc' = "sorted"
    /\ UNCHANGED <<options, base_path, dir_entries, stdout, stderr>>
    /\ UNCHANGED <<dateVars, textVars, tableVars, rowVars, sizeVars>>

\* -r reverses the sorted entries.
ProcessReverse ==
    /\ pc = "sorted"
    /\ "is_sort_reverse" \in options
    /\ rs_entries' = [rs_entries EXCEPT !.entries = reverse(@)]
    /\ pc' = "reversed"
    /\ UNCHANGED <<options, base_path, dir_entries, sort_type, stdout, stderr>>
    /\ UNCHANGED <<dateVars, textVars, tableVars, rowVars, sizeVars>>

\* The listing is printed, or the thread panics on the way.
PrintEntries ==
    /\ \/ pc = "sorted" /\ "is_sort_reverse" \notin options
       \/ pc = "reversed"
    /\ \E env \in Envs :
          LET out == print_entries(rs_entries, options, env)
          IN  IF out.kind = "Panic"
              THEN pc' = "panic" /\ stdout' = stdout
              ELSE pc' = "done" /\ stdout' = stdout \o out.val
    /\ UNCHANGED <<options, base_path, dir_entries, rs_entries, sort_type, stderr>>
    /\ UNCHANGED <<dateVars, textVars, tableVars, rowVars, sizeVars>>

(***************************************************************************)
(* One row: get_table_row on one entry.                                    *)
(***************************************************************************)
RowIdle ==
    /\ row_entry = [name |-> <<>>, path |-> <<>>, metadata |-> None]
    /\ row_options = {}
    /\ row_out = None

\* Any entry get_entries can build, and any choice of the row flags.
RowInit ==
    /\ \E name \in SortNames, st \in StatResults :
          row_entry = get_entries(<<name>>, DEFAULT_PATH, [n \in {name} |-> st]).entries[1]
    /\ row_options \in SUBSET RowFlags
    /\ row_out = None

GetTableRow ==
    /\ row_out.kind = "None"
    /\ \E env \in Envs : row_out' = get_table_row(row_entry, row_options, env)
    /\ UNCHANGED <<row_entry, row_options>>
    /\ UNCHANGED <<dateVars, textVars, tableVars, runVars, sizeVars>>

(***************************************************************************)
(* Specifications.                                                         *)
(***************************************************************************)
SpecDateInit == DateInit /\ TextIdle /\ TableIdle /\ RunIdle /\ RowIdle /\ SizeIdle
SpecDateNext == FromDays \/ MonthDisplay
SpecDate == SpecDateInit /\ [][SpecDateNext]_vars

SpecTextInit == TextInit /\ DateIdle /\ TableIdle /\ RunIdle /\ RowIdle /\ SizeIdle
SpecTextNext == BlueBold
SpecText == SpecTextInit /\ [][SpecTextNext]_vars

SpecTableInit == TableInit /\ DateIdle /\ TextIdle /\ RunIdle /\ RowIdle /\ SizeIdle
SpecTableNext == Table
SpecTable == SpecTableInit /\ [][SpecTableNext]_vars

SpecSortInit == SortInit /\ DateIdle /\ TextIdle /\ TableIdle /\ RowIdle /\ SizeIdle
SpecSortNext == GetEntries \/ SortBy \/ Reverse
SpecSort == SpecSortInit /\ [][SpecSortNext]_vars

SpecRowInit == RowInit /\ DateIdle /\ TextIdle /\ TableIdle /\ RunIdle /\ SizeIdle
SpecRowNext == GetTableRow
SpecRow == SpecRowInit /\ [][SpecRowNext]_vars

SpecRunInit == RunInit /\ DateIdle /\ TextIdle /\ TableIdle /\ RowIdle /\ SizeIdle
SpecRunNext == GetDirEntries \/ GetEntries \/ ProcessSort \/ ProcessReverse \/ PrintEntries
SpecRun == SpecRunInit /\ [][SpecRunNext]_vars

SpecSizeInit == SizeInit /\ DateIdle /\ TextIdle /\ TableIdle /\ RunIdle /\ RowIdle
SpecSizeNext == BytesToHumanReadable
SpecSize == SpecSizeInit /\ [][SpecSizeNext]_vars

\* process_entries up to the point where the entries are in order.
SpecKeyInit == KeyInit /\ DateIdle /\ TextIdle /\ TableIdle /\ RowIdle /\ SizeIdle
SpecKeyNext == GetDirEntries \/ GetEntries \/ ProcessSort \/ ProcessReverse
SpecKey == SpecKeyInit /\ [][SpecKeyNext]_vars

(***************************************************************************)
(* The reference calendar: the proleptic Gregorian rules, stated directly. *)
(***************************************************************************)
RefIsLeap(y) == (y % 4 = 0 /\ y % 100 # 0) \/ y % 400 = 0

RefDaysInMonth(y, m) ==
    CASE m \in {1, 3, 5, 7, 8, 10, 12} -> 31
      [] m \in {4, 6, 9, 11} -> 30
      [] m = 2 -> IF RefIsLeap(y) THEN 29 ELSE 28
      [] OTHER -> 0

RefValid(dt) ==
    /\ dt.month \in 1..12
    /\ dt.day \in 1..RefDaysInMonth(dt.year, dt.month)

\* Leap years among the years 1 .. y-1.
RefLeapsBefore(y) == (y - 1) \div 4 - (y - 1) \div 100 + (y - 1) \div 400

RECURSIVE RefDaysBeforeMonth(_, _)
RefDaysBeforeMonth(y, m) ==
    IF m <= 1 THEN 0
    ELSE RefDaysBeforeMonth(y, m - 1) + RefDaysInMonth(y, m - 1)

\* Days from 1970-01-01 to the valid date dt of year >= 1970.
RefDayNumber(dt) ==
    365 * (dt.year - 1970) + (RefLeapsBefore(dt.year) - RefLeapsBefore(1970))
    + RefDaysBeforeMonth(dt.year, dt.month) + (dt.day - 1)

\* C1: for every non-negative day count d, from_days(d) is the civil date
\* that lies d days after 1970-01-01 in the reference calendar; in
\* particular from_days(0) is 1970-01-01.
C1_FromDaysIsReferenceDate ==
    date # NoDate =>
        /\ RefValid(date)
        /\ date.year >= 1970
        /\ RefDayNumber(date) = days
        /\ (days = 0 => date = [year |-> 1970, month |-> 1, day |-> 1])

\* C2: for every non-negative day count d, from_days(d) has a month in 1..12
\* and a day valid for that month and year, so month_display (FullMonth or
\* ShortMonth) never hits the invalid-month error.
C2_MonthAndDayValid ==
    /\ date # NoDate => RefValid(date)
    /\ month_text # Panicked

\* C5: for an entry whose metadata lookup failed, get_table_row returns,
\* under every combination of options, a row of exactly one field, the
\* entry's name.
C5_RowWithoutMetadataIsName ==
    (row_out.kind # "None" /\ row_entry.metadata.kind = "None") =>
        /\ row_out.kind = "Ok"
        /\ row_out.val = <<row_entry.name>>

\* Whether a printed string holds the name.
Shown(name) == \E k \in 1..Len(stdout) : contains(stdout[k], name)

\* C6: in every output mode, when the metadata lookup fails for one or more
\* entries, process_entries still runs to completion without aborting and
\* the output holds every entry of the listing.
C6_FailedLookupStillListsAll ==
    ( /\ pc \in {"done", "panic"}
      /\ \E i \in 1..Len(rs_entries.entries) :
            rs_entries.entries[i].metadata.kind = "None" )
    => /\ pc = "done"
       /\ \A i \in 1..Len(rs_entries.entries) : Shown(rs_entries.entries[i].name)

MaxWidth(data, col) == SetMax({unescaped_length(data[row][col]) : row \in 1..Len(data)})

Rectangular(data) == \A r1, r2 \in 1..Len(data) : Len(data[r1]) = Len(data[r2])

\* C7: table returns Ok for every grid whose rows all have the same number
\* of fields (any number of rows, any number of columns), and returns the
\* validation error, without panicking, for every grid in which two rows
\* have different numbers of fields.
C7_TableOkIffRectangular ==
    table_out # None =>
        /\ Rectangular(input_data) => table_out.kind = "Ok"
        /\ ~Rectangular(input_data) => table_out = Err(ROWS_ERROR)

\* The text table has to return for a grid with rows: every line the cells
\* joined by col_size spaces, the cells of the last column as lastCell
\* gives them, the others left-padded to the column's widest visible text.
ExpectedTable(data, lastCell(_, _)) ==
    LET num_cols == Len(data[1])
        cell(row, col) ==
            IF col = num_cols THEN lastCell(row, col)
            ELSE repeat(<<" ">>, MaxWidth(data, col) - unescaped_length(data[row][col]))
                 \o data[row][col]
        line(row) == join([col \in 1..num_cols |-> cell(row, col)],
                          repeat(<<" ">>, col_size))
    IN  join([row \in 1..Len(data) |-> line(row)], <<"\n">>)

\* C8 as stated: for RightLastLeft and a rectangular grid, every column but
\* the last is left-padded to the column's maximum visible width and the
\* last column's cell is emitted with no trailing spaces added.
C8_LastColumnUnpadded ==
    (table_out.kind = "Ok" /\ align = "RightLastLeft") =>
        LET asIs(row, col) == input_data[row][col]
        IN  table_out.val = ExpectedTable(input_data, asIs)

\* C8 amended: for RightLastLeft and a rectangular grid with rows, every
\* column but the last is left-padded to the column's maximum visible width
\* and the last column's cell is right-padded with spaces to that column's
\* maximum visible width.
C8_LastColumnRightPadded ==
    (table_out.kind = "Ok" /\ align = "RightLastLeft") =>
        LET padded(row, col) ==
                input_data[row][col]
                \o repeat(<<" ">>, MaxWidth(input_data, col)
                                   - unescaped_length(input_data[row][col]))
        IN  table_out.val = ExpectedTable(input_data, padded)

\* C8 witness: a RightLastLeft table of two rows and two columns was
\* rendered in which both columns needed padding, one cell being coloured.
C8_Witness ==
    /\ table_out.kind = "Ok"
    /\ align = "RightLastLeft"
    /\ Len(input_data) = 2
    /\ Len(input_data[1]) = 2
    /\ \A col \in 1..2 :
          unescaped_length(input_data[1][col]) # unescaped_length(input_data[2][col])
    /\ \E row \in 1..2 : input_data[row][1] = blue_bold(<<"d">>)


\* The entries as sort_by left them, and whether all of them have metadata.
Sorted == rs_entries.entries
AllHaveMetadata(es) == \A i \in 1..Len(es) : es[i].metadata.kind = "Ok"
NameOrdered(a, b) == cmp_str(a.name, b.name) # Greater

\* Two entries with metadata that are equal on the key of the sort.
SameKey(kind, a, b) ==
    CASE kind = "Directory"  -> is_dir(a.metadata.val) = is_dir(b.metadata.val)
      [] kind = "Time"       -> a.metadata.val.st_mtime = b.metadata.val.st_mtime
      [] kind = "AccessTime" -> a.metadata.val.st_atime = b.metadata.val.st_atime
      [] kind = "Size"       -> a.metadata.val.len = b.metadata.val.len
      [] kind = "Extension"  -> extension(a.path) = extension(b.path)
      [] OTHER -> FALSE

\* C3: after sort_by(key), key one of Directory, Time, AccessTime, Size,
\* Extension, any two entries that both have metadata and are equal on the
\* key appear in ascending name order, whatever the input order was.
C3_TiesInNameOrder ==
    (pc = "sorted" /\ sort_type \in RSSort \ {"Default"}) =>
        \A i, j \in 1..Len(Sorted) :
            ( /\ i < j
              /\ Sorted[i].metadata.kind = "Ok"
              /\ Sorted[j].metadata.kind = "Ok"
              /\ SameKey(sort_type, Sorted[i], Sorted[j]) )
            => NameOrdered(Sorted[i], Sorted[j])

HasExt(e) == extension(e.path).kind = "Ok"

A_MD == <<"a", ".", "m", "d">>
B    == <<"b">>
C_GO == <<"c", ".", "g", "o">>

Names(es) == [i \in 1..Len(es) |-> es[i].name]

Perms(q) ==
    {[i \in 1..Len(q) |-> q[f[i]]] :
        f \in {g \in [1..Len(q) -> 1..Len(q)] : \A i, j \in 1..Len(q) : i # j => g[i] # g[j]}}

\* C9: for every sort key and every set of entries, also one that mixes
\* entries with and without metadata, the comparison of sort_by is a total
\* order (antisymmetric and transitive), so sort_by never panics and its
\* result is the same for every input order of the same entries.
C9_SortIsOrderIndependent ==
    (pc = "sorted") =>
        LET es == Range(Sorted)
            lt(a, b) == sort_compare(sort_type, a, b) = Less
        IN  /\ \A a, b \in es : sort_compare(sort_type, a, b) = 0 - sort_compare(sort_type, b, a)
            /\ \A a, b, c \in es : (lt(a, b) /\ lt(b, c)) => lt(a, c)
            /\ \A q \in Perms(Sorted), impl \in SortImpls :
                  sort_by(q, sort_type, impl) = Sorted

\* C10: for every string s, also one that holds the escape sequences or
\* fragments of them, unescaped_length(blue_bold(s)) = unescaped_length(s).
C10_BlueBoldKeepsVisibleLength ==
    text_out # None => unescaped_length(text_out.val) = unescaped_length(text_in)

\* C10 witness: a string that already holds a whole escape sequence was wrapped.
C10_Witness ==
    /\ text_out # None
    /\ \E i \in 1..Len(text_in) :
           MatchesAt(text_in, ESCAPE_BLUE_BOLD, i) \/ MatchesAt(text_in, ESCAPE_RESET, i)
    /\ unescaped_length(text_in) > 0

(***************************************************************************)
(* Sizes in human-readable form.                                           *)
(***************************************************************************)
SUFFIXES == <<"K", "M", "G">>

IsDigit(c) == \E i \in 1..Len(DIGITS) : DIGITS[i] = c

DigitValue(c) == (CHOOSE i \in 1..Len(DIGITS) : DIGITS[i] = c) - 1

\* The number a run of decimal digits stands for.
RECURSIVE Value(_)
Value(digits) ==
    IF digits = <<>> THEN 0
    ELSE Value(SubSeq(digits, 1, Len(digits) - 1)) * 10 + DigitValue(digits[Len(digits)])

\* The text is <digits>.<digit><suffix>.
ScaledShape(out, suffix) ==
    /\ Len(out) >= 4
    /\ out[Len(out)] = suffix
    /\ IsDigit(out[Len(out) - 1])
    /\ out[Len(out) - 2] = "."
    /\ \A i \in 1..(Len(out) - 3) : IsDigit(out[i])

\* The number of tenths the text <digits>.<digit><suffix> shows.
ShownTenths(out) ==
    Value(SubSeq(out, 1, Len(out) - 3)) * 10 + DigitValue(out[Len(out) - 1])

\* C11: bytes_to_human_readable(n) returns the plain decimal number n when
\* n < 1024; for every n >= 1024 it returns n divided by the power of 1024
\* that brings it below 1024, shown with exactly one decimal digit (the
\* tenth below or above the exact quotient, the quotient itself when it is
\* a whole number of tenths) and followed by K, M or G for the first, second
\* or third power, the number shown being below 1024.
C11_HumanReadableScaled ==
    human.kind = "Ok" =>
        IF Len(bytes) <= 1
        THEN human.val = to_string(IF bytes = <<>> THEN 0 ELSE bytes[1])
        ELSE /\ Len(bytes) - 1 \in DOMAIN SUFFIXES
             /\ ScaledShape(human.val, SUFFIXES[Len(bytes) - 1])
             /\ LET ten   == times_ten(SubSeq(bytes, 1, Len(bytes) - 1), 0)
                    floor == bytes[Len(bytes)] * 10 + ten.carry
                    exact == \A i \in 1..Len(ten.left) : ten.left[i] = 0
                    shown == ShownTenths(human.val)
                IN  /\ shown \in {floor, floor + 1}
                    /\ exact => shown = floor
                    /\ shown < KB_IN_BYTES * 10

(***************************************************************************)
(* The summary line.                                                       *)
(***************************************************************************)
TOTAL == <<"t", "o", "t", "a", "l", " ">>

\* The listing was printed with a summary line in front.
TotalPrinted ==
    /\ pc = "done"
    /\ {"is_long_output", "is_numeric_uid_gid"} \cap options # {}
    /\ "is_one_line" \notin options

\* The disk blocks of the entries whose metadata is there, each entry's
\* count of 512-byte blocks scaled to units of MB_BYTES bytes.
RECURSIVE BlocksTotal(_)
BlocksTotal(entries) ==
    IF entries = <<>> THEN 0
    ELSE LET last == entries[Len(entries)]
         IN  BlocksTotal(SubSeq(entries, 1, Len(entries) - 1))
             + (IF last.metadata.kind = "Ok"
                THEN (last.metadata.val.st_blocks * 512) \div MB_BYTES ELSE 0)

\* C12: the number on the "total <N>" line is the sum, over the entries
\* whose metadata lookup succeeded, of the entry's block count scaled to
\* the unit size; entries whose lookup failed add nothing.
C12_TotalIsSumOfBlockCounts ==
    TotalPrinted =>
        stdout[1] = TOTAL \o to_string(BlocksTotal(rs_entries.entries))

(***************************************************************************)
(* The choice of the sort key.                                             *)
(***************************************************************************)
\* The sort keys with the flag of each, the highest precedence first.
Precedence ==
    << <<"Directory", "is_group_directories_first">>,
       <<"Size", "is_sort_by_size">>,
       <<"AccessTime", "is_access_time">>,
       <<"Time", "is_sort_by_time">>,
       <<"Extension", "is_sort_by_extension">> >>

\* The first key from place i on whose flag is set, Default when none is.
RECURSIVE HighestKey(_, _)
HighestKey(opts, i) ==
    IF i > Len(Precedence) THEN "Default"
    ELSE IF Precedence[i][2] \in opts THEN Precedence[i][1]
    ELSE HighestKey(opts, i + 1)

\* C13: for every combination of the option flags the key process_entries
\* sorts by is the highest-precedence key whose flag is set, in the order
\* directory-first > size > access-time > modified-time > extension, and
\* Default when none is set; the reverse flag does not change the key.
C13_KeyByPrecedence ==
    pc \in {"sorted", "reversed"} =>
        sort_type = HighestKey(options \ {"is_sort_reverse"}, 1)

====
